---- MODULE Spec2Model ----
(***************************************************************************)
(* Model of the deal-finder pipelines:                                     *)
(*   parse.py  the cached pipeline: load saved candidates, cache-or-extract*)
(*             per candidate, normalize into Deal records, write outputs;  *)
(*   pl.py     the full pipeline: create a search run, poll it, retrieve   *)
(*             the candidates, extract and normalize, write outputs.       *)
(* Strings that the code inspects character by character (deal types, file *)
(* timestamps) are sequences of one-character strings.                     *)
(***************************************************************************)
EXTENDS Naturals, Sequences, FiniteSets, TLC

VARIABLES
    script,            \* what runs: "parse", "pl", or "dt" (parse_deal_type alone)
    pc,                \* position of the running script
    run,               \* parse.py: "first" run, or the "rerun" after it
    now,               \* clock: ticks of datetime.now()
    today,             \* date.today(), a day number
    matched,           \* the matched candidates, in input order
    files,             \* output/openai_responses_<ts>.json on disk: ts -> content
    openai_responses,  \* the in-memory cache: ordered sequence of <<id, value>>
    openai_responses_file, \* timestamp naming this run's cache file
    timestamp,         \* the run timestamp naming the output files
    i,                 \* loop index (0-based, as enumerate)
    parsed,            \* extraction result of the candidate being processed
    deals,             \* the Deal list
    failed,            \* the failure list
    outputs,           \* output files on disk: set of <<kind, ts>>
    summary,           \* content of the summary file written by this run
    hist,              \* history of the run (what happened to each candidate)
    prev,              \* the previous run of parse.py: per candidate, its Deal or None
    poll,              \* pl.py polling: statuses observed so far
    dt                 \* parse_deal_type alone: its input and its result

vars == <<script, pc, run, now, today, matched, files, openai_responses,
          openai_responses_file, timestamp, i, parsed, deals, failed, outputs,
          summary, hist, prev, poll, dt>>

(***************************************************************************)
(* Bounds of the model.                                                    *)
(***************************************************************************)
MaxCandidates == 3
MaxFaults == 1
MaxPolls == 3
MaxWords == 2

(***************************************************************************)
(* Characters and strings.                                                 *)
(***************************************************************************)
Upper == <<"A","B","C","D","E","F","G","H","I","J","K","L","M",
           "N","O","P","Q","R","S","T","U","V","W","X","Y","Z">>
LowerLetters == <<"a","b","c","d","e","f","g","h","i","j","k","l","m",
                  "n","o","p","q","r","s","t","u","v","w","x","y","z">>

\* str.lower() on one character
LowerChar(c) ==
    IF \E k \in 1..26 : Upper[k] = c
    THEN LowerLetters[CHOOSE k \in 1..26 : Upper[k] = c]
    ELSE c

\* str.lower()
lower(s) == [k \in 1..Len(s) |-> LowerChar(s[k])]

\* the Python test  `sub in s`
In(sub, s) ==
    \E k \in 0..(Len(s) - Len(sub)) :
        \A j \in 1..Len(sub) : s[k + j] = sub[j]

\* the Python slice  s[:n]
Take(s, n) == IF Len(s) <= n THEN s ELSE SubSeq(s, 1, n)

\* the substrings parse_deal_type looks for
S_ma == <<"m","&","a">>
S_acquisition == <<"a","c","q","u","i","s","i","t","i","o","n">>
S_merger == <<"m","e","r","g","e","r">>
S_option == <<"o","p","t","i","o","n">>
S_licens == <<"l","i","c","e","n","s">>

\* DealTypeDetailed
MA == "M&A"
OPTION_TO_LICENSE == "option-to-license"
LICENSING == "licensing"
PARTNERSHIP == "partnership"

\* a plausible slip: the licensing branches are tested before the M&A branch
parse_deal_type_licens_first(deal_type_str) ==
    IF Len(deal_type_str) = 0 THEN PARTNERSHIP
    ELSE LET low == lower(deal_type_str) IN
         IF In(S_option, low) /\ In(S_licens, low) THEN OPTION_TO_LICENSE
         ELSE IF In(S_licens, low) THEN LICENSING
         ELSE IF In(S_ma, low) \/ In(S_acquisition, low) \/ In(S_merger, low)
              THEN MA
         ELSE PARTNERSHIP

parse_deal_type(deal_type_str) ==
    IF Len(deal_type_str) = 0 THEN PARTNERSHIP
    ELSE LET low == lower(deal_type_str) IN
         IF In(S_ma, low) \/ In(S_acquisition, low) \/ In(S_merger, low)
         THEN MA
         ELSE IF In(S_option, low) /\ In(S_licens, low) THEN OPTION_TO_LICENSE
         ELSE IF In(S_licens, low) THEN LICENSING
         ELSE PARTNERSHIP

(***************************************************************************)
(* Deal-type inputs: texts made of words of a small vocabulary, joined by  *)
(* single spaces.                                                          *)
(***************************************************************************)
Vocabulary == <<
    <<"M","&","A">>,
    <<"A","c","q","u","i","s","i","t","i","o","n">>,
    <<"M","E","R","G","E","R">>,
    <<"O","p","t","i","o","n">>,
    <<"L","i","c","e","n","s","i","n","g">>,
    <<"s","u","b","l","i","c","e","n","s","e">>,
    <<"p","a","r","t","n","e","r","s","h","i","p">>,
    <<"t","o">>,
    <<"o","p","t">>,
    <<"l","i","c","e","n","c","e">> >>

WordIds == 1..Len(Vocabulary)

RECURSIVE Join(_)
Join(ws) ==
    IF Len(ws) = 0 THEN <<>>
    ELSE IF Len(ws) = 1 THEN Vocabulary[ws[1]]
    ELSE Vocabulary[ws[1]] \o <<" ">> \o Join(Tail(ws))

WordSeqs == UNION {[1..n -> WordIds] : n \in 0..MaxWords}

(***************************************************************************)
(* JSON values, as json.load / json.loads build them.                      *)
(***************************************************************************)
JNull == [t |-> "null", s |-> "", n |-> 0]
JStr(x) == [t |-> "str", s |-> x, n |-> 0]
JNum(k) == [t |-> "num", s |-> "", n |-> k]

\* Python truthiness of a JSON value (None, "" and 0 are falsy)
Truthy(v) ==
    CASE v.t = "null" -> FALSE
      [] v.t = "str" -> Len(v.s) > 0
      [] v.t = "num" -> v.n # 0

\* dict.get(key): None when the key is absent
Get(d, key) == IF key \in DOMAIN d THEN d[key] ELSE JNull

\* dict.get(key, default)
GetDefault(d, key, default) == IF key \in DOMAIN d THEN d[key] ELSE default

\* the Python expression  a or b
Or(a, b) == IF Truthy(a) THEN a ELSE b

\* absent / present optional values (None, or a value)
None == {}
Some(x) == {x}

(***************************************************************************)
(* The candidates of the saved search result.                              *)
(***************************************************************************)
Str_Acme == "Acme Bio"
Url_x == "https://x.com"

CandidatePool == <<
    [candidate_id |-> JStr("c1"), name |-> JStr(Str_Acme), url |-> JStr(Url_x),
     match_status |-> JStr("matched")],
    [name |-> JStr("Beta"), match_status |-> JStr("matched")],
    [candidate_id |-> JStr("c1"), name |-> JStr("Dup"), url |-> JStr("https://d.com"),
     match_status |-> JStr("matched")],
    [candidate_id |-> JStr("c4"), name |-> JNull, url |-> JStr("https://n.com"),
     match_status |-> JStr("matched")],
    [candidate_id |-> JStr("c5"), name |-> JStr("Other"),
     match_status |-> JStr("unmatched")] >>

\* candidate lists: distinct records of the pool, at most MaxCandidates of them
CandidateLists ==
    {cs \in UNION {[1..n -> 1..Len(CandidatePool)] : n \in 0..MaxCandidates} :
        \A a, b \in DOMAIN cs : a # b => cs[a] # cs[b]}

\* matched = [c for c in candidates if c.get('match_status') == 'matched']
RECURSIVE Filter(_)
Filter(cs) ==
    IF Len(cs) = 0 THEN <<>>
    ELSE IF Get(CandidatePool[cs[1]], "match_status") = JStr("matched")
         THEN <<CandidatePool[cs[1]]>> \o Filter(Tail(cs))
         ELSE Filter(Tail(cs))

\* dictionary keys: a given identifier, or the generated f'candidate_{i}'
Key(x) == [given |-> x, generated |-> {}]
CandidateN(k) == [given |-> "", generated |-> {k}]

\* candidate.get('candidate_id', f'candidate_{i}')
candidate_id(candidate, k) ==
    IF "candidate_id" \in DOMAIN candidate
    THEN Key(candidate["candidate_id"].s)
    ELSE CandidateN(k)

(***************************************************************************)
(* Extraction results: what the provider may answer for a candidate.       *)
(***************************************************************************)
S_partnership == <<"p","a","r","t","n","e","r","s","h","i","p">>

\* {} : nothing extracted
EmptyResult == [k \in {} |-> JNull]

\* all fields present and well formed
FullResult ==
    [date_announced |-> JStr("2024-01-15"), target_company |-> JStr("Target Inc"),
     acquirer_company |-> JStr("Buyer Corp"), development_stage |-> JStr("phase 1"),
     asset_name |-> JStr("AB-101"), deal_type |-> JStr(Join(<<4, 8, 6>>)),
     upfront_value_usd |-> JNum(15), milestone_value_usd |-> JStr("120")]

\* nulls, a date in words, an ambiguous deal type, a zero and a non-numeric amount
SparseResult ==
    [date_announced |-> JStr("Q1 2024"), target_company |-> JNull,
     deal_type |-> JStr(Join(<<2, 5>>)),
     upfront_value_usd |-> JNum(0), milestone_value_usd |-> JStr("undisclosed")]

\* a number where a string is expected
BadTypeResult ==
    [date_announced |-> JStr("January 15, 2024"), target_company |-> JNum(7)]

ExtractionResults == {EmptyResult, FullResult, SparseResult, BadTypeResult}

\* what the call to the provider does: it raises, or answers a JSON object
ProviderOutcomes ==
    {[raises |-> TRUE, content |-> EmptyResult]}
        \cup {[raises |-> FALSE, content |-> r] : r \in ExtractionResults \ {EmptyResult}}

\* parse_candidate_with_openai: the provider's answer, or {} when the call raises
parse_candidate_with_openai(outcome) ==
    IF outcome.raises THEN EmptyResult ELSE outcome.content

(***************************************************************************)
(* Dates and decimals.                                                     *)
(***************************************************************************)
Date(y, m, d) == [y |-> y, m |-> m, d |-> d]

Day1 == Date(2026, 11, 3)
Day2 == Date(2026, 11, 4)

\* datetime.fromisoformat(s).date(): None stands for ValueError
fromisoformat(s) ==
    CASE s = "2024-01-15" -> Some(Date(2024, 1, 15))
      [] OTHER -> None

\* datetime.strptime(s, fmt).date(): None stands for ValueError
strptime(s, fmt) ==
    CASE s = "2024-01-15" /\ fmt = "%Y-%m-%d" -> Some(Date(2024, 1, 15))
      [] s = "January 15, 2024" /\ fmt = "%B %d, %Y" -> Some(Date(2024, 1, 15))
      [] s = "2024" /\ fmt = "%Y" -> Some(Date(2024, 1, 1))
      [] OTHER -> None

DateFormats == <<"%Y-%m-%d", "%B %d, %Y", "%Y">>

\* parse_date: ISO first, then the fallback formats in order, else today
parse_date(date_str, current_day) ==
    IF Len(date_str) = 0 THEN current_day
    ELSE IF fromisoformat(date_str) # None
         THEN CHOOSE d \in fromisoformat(date_str) : TRUE
    ELSE IF \E k \in 1..Len(DateFormats) : strptime(date_str, DateFormats[k]) # None
         THEN LET k == CHOOSE k \in 1..Len(DateFormats) :
                          /\ strptime(date_str, DateFormats[k]) # None
                          /\ \A j \in 1..(k - 1) : strptime(date_str, DateFormats[j]) = None
              IN CHOOSE d \in strptime(date_str, DateFormats[k]) : TRUE
    ELSE current_day

\* Decimal(text): None stands for InvalidOperation
Decimal(text) ==
    CASE text = "120" -> Some(120)
      [] OTHER -> None

\* safe_decimal: None for null or unconvertible input
safe_decimal(value) ==
    CASE value.t = "null" -> None
      [] value.t = "num" -> Some(value.n)
      [] value.t = "str" -> Decimal(value.s)

\* str(x) of a number
NumText(k) ==
    CASE k = 0 -> "0"
      [] k = 7 -> "7"
      [] k = 15 -> "15"
      [] k = 120 -> "120"

\* str(x) of a JSON value
Str(v) ==
    CASE v.t = "null" -> "None"
      [] v.t = "str" -> v.s
      [] v.t = "num" -> NumText(v.n)

(***************************************************************************)
(* Normalization: the Deal built from a candidate and its extraction       *)
(* result, or the exception the expressions raise.                         *)
(***************************************************************************)
\* the exception of  v[:n]  ("" when there is none)
SliceError(v) ==
    CASE v.t = "str" -> ""
      [] v.t = "null" -> "'NoneType' object is not subscriptable"
      [] v.t = "num" -> "'int' object is not subscriptable"

\* the exception of  v.lower()  in parse_deal_type ("" when there is none)
LowerError(v) ==
    CASE v.t = "str" -> ""
      [] v.t = "null" -> ""
      [] v.t = "num" -> "'int' object has no attribute 'lower'"

\* the first non-empty message of a sequence of messages
RECURSIVE FirstError(_)
FirstError(es) ==
    IF Len(es) = 0 THEN ""
    ELSE IF Head(es) # "" THEN Head(es)
    ELSE FirstError(Tail(es))

\* the values of the Deal's fields before slicing, in the order they are evaluated
DealArgs(candidate, extraction) ==
    LET name == GetDefault(candidate, "name", JStr("Unknown")) IN
    [date_announced |-> Or(Get(extraction, "date_announced"), JStr("")),
     target |-> Or(Get(extraction, "target_company"), name),
     acquirer |-> Or(Get(extraction, "acquirer_company"), JStr("Partner")),
     stage |-> Or(Get(extraction, "development_stage"), JStr("unknown")),
     therapeutic_area |-> Or(Get(extraction, "therapeutic_area"),
                             JStr("Immunology & Inflammation")),
     asset_focus |-> Or(Get(extraction, "asset_name"), name),
     deal_type |-> Or(Get(extraction, "deal_type"), JStr(S_partnership)),
     url |-> GetDefault(candidate, "url", JStr("https://example.com")),
     description |-> GetDefault(candidate, "description", JStr(""))]

\* the exception raised while the Deal is built ("" when there is none)
DealError(candidate, extraction, which) ==
    LET a == DealArgs(candidate, extraction) IN
    FirstError(<<SliceError(a.target), SliceError(a.acquirer), SliceError(a.stage),
                 IF which = "pl" THEN SliceError(a.therapeutic_area) ELSE "",
                 SliceError(a.asset_focus), LowerError(a.deal_type),
                 IF which = "pl" THEN SliceError(a.description) ELSE "">>)

\* Deal(...): the record built when no expression raises
Deal(candidate, extraction, which, current_day, clock) ==
    LET a == DealArgs(candidate, extraction) IN
    [date_announced |-> parse_date(Str(a.date_announced), current_day),
     target |-> Take(a.target.s, 200),
     acquirer |-> Take(a.acquirer.s, 200),
     stage |-> Take(a.stage.s, 50),
     therapeutic_area |-> IF which = "pl" THEN Take(a.therapeutic_area.s, 100)
                          ELSE "Immunology & Inflammation",
     asset_focus |-> Take(a.asset_focus.s, 200),
     deal_type_detailed |-> parse_deal_type(a.deal_type.s),
     source_url |-> a.url,
     upfront_value_usd |-> safe_decimal(Get(extraction, "upfront_value_usd")),
     contingent_payment_usd |-> safe_decimal(Get(extraction, "milestone_value_usd")),
     total_deal_value_usd |-> safe_decimal(Get(extraction, "total_deal_value_usd")),
     geography |-> None,
     key_evidence |-> IF which = "pl" THEN Some(Take(a.description.s, 500)) ELSE None,
     confidence |-> "0.5",
     timestamp_utc |-> clock]

\* the failure list's entry for candidate k
Failure(k, candidate, message) ==
    [index |-> k, name |-> Get(candidate, "name"), error |-> message]

\* the exception of the progress line:  candidate.get('name', 'Unknown')[:60]
ProgressError(candidate) == SliceError(GetDefault(candidate, "name", JStr("Unknown")))

(***************************************************************************)
(* The cache: a Python dict, which keeps its keys in insertion order.      *)
(***************************************************************************)
Keys(d) == {d[k].key : k \in 1..Len(d)}

\* a plausible slip: the first entry's value, whatever the key
Lookup_first(d, key) == d[1].value

\* d[key], for a key of d
Lookup(d, key) == d[CHOOSE k \in 1..Len(d) : d[k].key = key].value

\* a plausible slip: openai_responses = {candidate_id: parsed}
Store_only(d, key, value) == <<[key |-> key, value |-> value]>>

\* d[key] = value
Store(d, key, value) ==
    IF key \in Keys(d)
    THEN [k \in 1..Len(d) |-> IF d[k].key = key THEN [key |-> key, value |-> value]
                              ELSE d[k]]
    ELSE Append(d, [key |-> key, value |-> value])

(***************************************************************************)
(* Cache files: output/openai_responses_<timestamp>.json.  A file name is  *)
(* the sequence of its prefix, the timestamp's characters and the          *)
(* extension; names are ordered as Python orders strings.                  *)
(***************************************************************************)
Digits == <<"0","1","2","3","4","5","6","7","8","9">>
Prefix == "openai_responses_"
Extension == ".json"

\* datetime.now().strftime(...): fixed width, here two digits
strftime(clock) == <<Digits[((clock \div 10) % 10) + 1], Digits[(clock % 10) + 1]>>

\* Path("output") / f"openai_responses_{timestamp}.json"
FileName(ts) == <<Prefix>> \o ts \o <<Extension>>

\* the order of the characters in a file name
Alphabet == <<Extension>> \o Digits \o <<Prefix>>
Ord(c) == CHOOSE k \in 1..Len(Alphabet) : Alphabet[k] = c

\* a < b for Python strings
LexLess(a, b) ==
    \E k \in 1..(Len(b)) :
        /\ \A j \in 1..(k - 1) : j <= Len(a) /\ a[j] = b[j]
        /\ \/ k = Len(a) + 1
           \/ k <= Len(a) /\ Ord(a[k]) < Ord(b[k])

\* a plausible slip: sorted(...) without reverse=True
RECURSIVE sorted_ascending(_)
sorted_ascending(S) ==
    IF S = {} THEN <<>>
    ELSE LET m == CHOOSE x \in S : \A y \in S \ {x} : LexLess(x, y)
         IN <<m>> \o sorted_ascending(S \ {m})

\* sorted(glob.glob(...), reverse=True)
RECURSIVE sorted_reverse(_)
sorted_reverse(S) ==
    IF S = {} THEN <<>>
    ELSE LET m == CHOOSE x \in S : \A y \in S \ {x} : LexLess(y, x)
         IN <<m>> \o sorted_reverse(S \ {m})

\* openai_responses_file.stem.replace('openai_responses_', '')
StemTimestamp(name) ==
    SelectSeq(SubSeq(name, 1, Len(name) - 1), LAMBDA c : c # Prefix)

\* a complete file holding the mapping d, and a file cut short after k entries
Complete(d) == [ok |-> TRUE, data |-> d]
Partial(d, k) == [ok |-> FALSE, data |-> SubSeq(d, 1, k)]

\* the file system with file `name` holding `content`
WriteFile(fs, name, content) ==
    [n \in DOMAIN fs \cup {name} |-> IF n = name THEN content ELSE fs[n]]

\* the cache files found on disk when the first run starts
OldCache == <<[key |-> Key("c1"), value |-> SparseResult]>>
NewCache == <<[key |-> Key("c1"), value |-> FullResult],
              [key |-> CandidateN(1), value |-> EmptyResult]>>

NoFiles == [n \in {} |-> Complete(<<>>)]

InitialFiles ==
    {NoFiles,
     WriteFile(NoFiles, FileName(<<"1","1">>), Complete(NewCache)),
     WriteFile(WriteFile(NoFiles, FileName(<<"0","3">>), Complete(OldCache)),
               FileName(<<"1","1">>), Complete(NewCache))}

(***************************************************************************)
(* The state of a run.                                                     *)
(***************************************************************************)
\* what a run has done so far
EmptyHist ==
    [existing |-> {},     \* the cache files found at startup
     loaded |-> <<>>,     \* the cache as loaded at startup
     calls |-> <<>>,      \* the keys the provider was invoked for, in order
     errs |-> {},         \* the indices whose provider call raised
     wfail |-> {},        \* the indices whose cache write raised
     used |-> <<>>,       \* per processed candidate: the extraction result used
     out |-> <<>>,        \* per processed candidate: its Deal, or None
     written |-> {},      \* the output files written
     faults |-> 0]        \* the I/O errors raised so far

Idle == [words |-> <<>>, text |-> <<>>, result |-> ""]

Running == {"start", "poll", "retrieve", "loop", "open", "dump"}

Init ==
    /\ script \in {"parse", "pl"}
    /\ pc = IF script = "parse" THEN "start" ELSE "poll"
    /\ run = "first"
    /\ now = 12
    /\ today = Day1
    /\ matched \in IF script = "parse" THEN {Filter(cs) : cs \in CandidateLists}
                   ELSE {<<>>}
    /\ files \in IF script = "parse" THEN InitialFiles ELSE {NoFiles}
    /\ openai_responses = <<>>
    /\ openai_responses_file = <<>>
    /\ timestamp = <<>>
    /\ i = 0
    /\ parsed = EmptyResult
    /\ deals = <<>>
    /\ failed = <<>>
    /\ outputs = {}
    /\ summary = <<>>
    /\ hist = EmptyHist
    /\ prev = <<>>
    /\ poll = [count |-> 0, last |-> ""]
    /\ dt = Idle

(***************************************************************************)
(* parse.py, lines 139-155: cache discovery.                               *)
(***************************************************************************)
\* no cache file: a fresh timestamp and an empty cache
DiscoverNone ==
    /\ script = "parse" /\ pc = "start"
    /\ sorted_reverse(DOMAIN files) = <<>>
    /\ timestamp' = strftime(now)
    /\ now' = now + 1
    /\ openai_responses_file' = FileName(timestamp')
    /\ openai_responses' = <<>>
    /\ hist' = [hist EXCEPT !.existing = DOMAIN files]
    /\ pc' = "loop"
    /\ UNCHANGED <<script, run, today, matched, files, i, parsed, deals, failed,
                   outputs, summary, prev, poll, dt>>

\* the first of the sorted file names is loaded; its name gives the timestamp
DiscoverLoad ==
    /\ script = "parse" /\ pc = "start"
    /\ sorted_reverse(DOMAIN files) # <<>>
    /\ LET name == sorted_reverse(DOMAIN files)[1] IN
        /\ files[name].ok
        /\ openai_responses_file' = name
        /\ openai_responses' = files[name].data
        /\ timestamp' = StemTimestamp(name)
        /\ hist' = [hist EXCEPT !.existing = DOMAIN files,
                                !.loaded = files[name].data]
    /\ pc' = "loop"
    /\ UNCHANGED <<script, run, now, today, matched, files, i, parsed, deals,
                   failed, outputs, summary, prev, poll, dt>>

\* json.load raises on a file that was cut short: the run ends with a traceback
DiscoverLoadRaises ==
    /\ script = "parse" /\ pc = "start"
    /\ sorted_reverse(DOMAIN files) # <<>>
    /\ LET name == sorted_reverse(DOMAIN files)[1] IN
        /\ ~files[name].ok
        /\ openai_responses_file' = name
        /\ hist' = [hist EXCEPT !.existing = DOMAIN files]
    /\ pc' = "halted"
    /\ UNCHANGED <<script, run, now, today, matched, files, openai_responses,
                   timestamp, i, parsed, deals, failed, outputs, summary, prev,
                   poll, dt>>

(***************************************************************************)
(* The processing loop (parse.py lines 162-206, pl.py lines 211-243).      *)
(***************************************************************************)
\* the candidate of this iteration and its cache key
Candidate == matched[i + 1]
Id == candidate_id(Candidate, i)

\* a plausible slip: the cache is never consulted
cached_never(d, key) == FALSE

\* candidate_id in openai_responses
cached(d, key) == key \in Keys(d)

\* a plausible slip: the handler drops the failure (except: pass)
on_exception_pass(failures, k, candidate, message) == failures

\* except Exception as e: failed.append({...})
on_exception(failures, k, candidate, message) ==
    Append(failures, Failure(k, candidate, message))

\* the except branch: the candidate gets a failure entry and the loop goes on
Handler(message, h) ==
    /\ failed' = on_exception(failed, i, Candidate, message)
    /\ hist' = [h EXCEPT !.used = Append(@, None), !.out = Append(@, None)]
    /\ i' = i + 1
    /\ pc' = "loop"
    /\ UNCHANGED <<deals, now>>

\* lines 181-206: build the Deal from `extraction` and append it, or fail
Normalize(extraction, h) ==
    LET message == DealError(Candidate, extraction, script)
        deal == Deal(Candidate, extraction, script, today, now)
    IN IF message = ""
       THEN /\ deals' = Append(deals, deal)
            /\ now' = now + 1
            /\ hist' = [h EXCEPT !.used = Append(@, Some(extraction)),
                                 !.out = Append(@, Some(deal))]
            /\ i' = i + 1
            /\ pc' = "loop"
            /\ UNCHANGED failed
       ELSE /\ failed' = on_exception(failed, i, Candidate, message)
            /\ hist' = [h EXCEPT !.used = Append(@, Some(extraction)),
                                 !.out = Append(@, None)]
            /\ i' = i + 1
            /\ pc' = "loop"
            /\ UNCHANGED <<deals, now>>

\* the progress line raises (the name is not a string): straight to the handler
ProgressRaises ==
    /\ script \in {"parse", "pl"} /\ pc = "loop" /\ i < Len(matched)
    /\ ProgressError(Candidate) # ""
    /\ Handler(ProgressError(Candidate), hist)
    /\ UNCHANGED <<script, run, today, matched, files, openai_responses,
                   openai_responses_file, timestamp, parsed, outputs, summary,
                   prev, poll, dt>>

\* parse.py: the key is in the cache; the cached value is normalized
CacheHit ==
    /\ script = "parse" /\ pc = "loop" /\ i < Len(matched)
    /\ ProgressError(Candidate) = ""
    /\ cached(openai_responses, Id)
    /\ parsed' = Lookup(openai_responses, Id)
    /\ Normalize(parsed', hist)
    /\ UNCHANGED <<script, run, today, matched, files, openai_responses,
                   openai_responses_file, timestamp, outputs, summary, prev,
                   poll, dt>>

\* parse.py: the key is not in the cache; the provider is called and the
\* result stored in memory (lines 172-175)
CacheMiss ==
    /\ script = "parse" /\ pc = "loop" /\ i < Len(matched)
    /\ ProgressError(Candidate) = ""
    /\ ~cached(openai_responses, Id)
    /\ \E outcome \in ProviderOutcomes :
        /\ parsed' = parse_candidate_with_openai(outcome)
        /\ hist' = [hist EXCEPT !.calls = Append(@, Id),
                                !.errs = IF outcome.raises THEN @ \cup {i} ELSE @]
    /\ openai_responses' = Store(openai_responses, Id, parsed')
    /\ pc' = "open"
    /\ UNCHANGED <<script, run, now, today, matched, files, openai_responses_file,
                   timestamp, i, deals, failed, outputs, summary, prev, poll, dt>>

\* line 176: open(..., 'w') truncates the cache file
OpenCacheFile ==
    /\ script = "parse" /\ pc = "open"
    /\ files' = WriteFile(files, openai_responses_file, Partial(openai_responses, 0))
    /\ pc' = "dump"
    /\ UNCHANGED <<script, run, now, today, matched, openai_responses,
                   openai_responses_file, timestamp, i, parsed, deals, failed,
                   outputs, summary, hist, prev, poll, dt>>

\* line 176: open raises OSError; the file is untouched, the handler runs
OpenCacheFileRaises ==
    /\ script = "parse" /\ pc = "open"
    /\ hist.faults < MaxFaults
    /\ Handler("OSError", [hist EXCEPT !.wfail = @ \cup {i}, !.faults = @ + 1])
    /\ UNCHANGED <<script, run, today, matched, files, openai_responses,
                   openai_responses_file, timestamp, parsed, outputs, summary,
                   prev, poll, dt>>

\* line 177: the whole mapping is written and the file closed; then the Deal
DumpCache ==
    /\ script = "parse" /\ pc = "dump"
    /\ files' = WriteFile(files, openai_responses_file, Complete(openai_responses))
    /\ Normalize(parsed, hist)
    /\ UNCHANGED <<script, run, today, matched, openai_responses,
                   openai_responses_file, timestamp, parsed, outputs, summary,
                   prev, poll, dt>>

\* line 177: a write raises OSError part-way; the file stays cut short
DumpCacheRaises ==
    /\ script = "parse" /\ pc = "dump"
    /\ hist.faults < MaxFaults
    /\ \E k \in 0..(Len(openai_responses) - 1) :
        files' = WriteFile(files, openai_responses_file, Partial(openai_responses, k))
    /\ Handler("OSError", [hist EXCEPT !.wfail = @ \cup {i}, !.faults = @ + 1])
    /\ UNCHANGED <<script, run, today, matched, openai_responses,
                   openai_responses_file, timestamp, parsed, outputs, summary,
                   prev, poll, dt>>

\* pl.py: every candidate is sent to the provider (line 216), then normalized
PlIterate ==
    /\ script = "pl" /\ pc = "loop" /\ i < Len(matched)
    /\ ProgressError(Candidate) = ""
    /\ \E outcome \in ProviderOutcomes :
        /\ parsed' = parse_candidate_with_openai(outcome)
        /\ Normalize(parsed', [hist EXCEPT !.calls = Append(@, Id),
                                !.errs = IF outcome.raises THEN @ \cup {i} ELSE @])
    /\ UNCHANGED <<script, run, today, matched, files, openai_responses,
                   openai_responses_file, timestamp, outputs, summary, prev,
                   poll, dt>>

(***************************************************************************)
(* Saving the results (parse.py lines 216-259, pl.py lines 250-295).       *)
(***************************************************************************)
\* str(d.date_announced)
DateText(d) == <<d.y, d.m, d.d>>

\* str(x) if x else None, for a Deal's decimal field
MoneyText(x) ==
    IF x # None /\ (CHOOSE v \in x : TRUE) # 0
    THEN Some(NumText(CHOOSE v \in x : TRUE))
    ELSE None

\* one entry of the summary's 'deals' list
SummaryDeal(d) ==
    [date_announced |-> DateText(d.date_announced),
     target |-> d.target,
     acquirer |-> d.acquirer,
     stage |-> d.stage,
     therapeutic_area |-> d.therapeutic_area,
     asset_focus |-> d.asset_focus,
     deal_type |-> d.deal_type_detailed,
     source_url |-> Str(d.source_url),
     upfront_value_usd |-> MoneyText(d.upfront_value_usd),
     contingent_payment_usd |-> MoneyText(d.contingent_payment_usd),
     total_deal_value_usd |-> MoneyText(d.total_deal_value_usd),
     key_evidence |-> d.key_evidence]

\* the summary file's content
Summary ==
    [timestamp |-> timestamp,
     total_deals |-> Len(deals),
     failed_parses |-> failed,
     deals |-> [k \in 1..Len(deals) |-> SummaryDeal(deals[k])]]

\* a plausible slip: the spreadsheet is written whatever the Deal list holds
should_export_always(ds) == TRUE

\* if deals:
should_export(ds) == Len(ds) > 0

\* the end of the loop
LoopEnded == script \in {"parse", "pl"} /\ pc = "loop" /\ i = Len(matched)

\* the summary and the spreadsheet are both written
SaveResults ==
    /\ LoopEnded
    /\ should_export(deals)
    /\ summary' = Summary
    /\ outputs' = outputs \cup {<<"openai_parsed", timestamp>>,
                                <<"deals_parallel_II", timestamp>>}
    /\ hist' = [hist EXCEPT !.written = @ \cup {"openai_parsed", "deals_parallel_II"}]
    /\ pc' = "done"
    /\ UNCHANGED <<script, run, now, today, matched, files, openai_responses,
                   openai_responses_file, timestamp, i, parsed, deals, failed,
                   prev, poll, dt>>

\* the summary is written; else: print("No deals to export!")
SaveSummaryOnly ==
    /\ LoopEnded
    /\ ~should_export(deals)
    /\ summary' = Summary
    /\ outputs' = outputs \cup {<<"openai_parsed", timestamp>>}
    /\ hist' = [hist EXCEPT !.written = @ \cup {"openai_parsed"}]
    /\ pc' = "done"
    /\ UNCHANGED <<script, run, now, today, matched, files, openai_responses,
                   openai_responses_file, timestamp, i, parsed, deals, failed,
                   prev, poll, dt>>

\* writing the summary raises: nothing catches it, the run ends
SaveSummaryRaises ==
    /\ LoopEnded
    /\ hist.faults < MaxFaults
    /\ hist' = [hist EXCEPT !.faults = @ + 1]
    /\ pc' = "halted"
    /\ UNCHANGED <<script, run, now, today, matched, files, openai_responses,
                   openai_responses_file, timestamp, i, parsed, deals, failed,
                   outputs, summary, prev, poll, dt>>

\* the summary is written, then the spreadsheet writer raises: the run ends
SaveExcelRaises ==
    /\ LoopEnded
    /\ should_export(deals)
    /\ hist.faults < MaxFaults
    /\ summary' = Summary
    /\ outputs' = outputs \cup {<<"openai_parsed", timestamp>>}
    /\ hist' = [hist EXCEPT !.written = @ \cup {"openai_parsed"}, !.faults = @ + 1]
    /\ pc' = "halted"
    /\ UNCHANGED <<script, run, now, today, matched, files, openai_responses,
                   openai_responses_file, timestamp, i, parsed, deals, failed,
                   prev, poll, dt>>

(***************************************************************************)
(* The process is killed; parse.py is run again.                           *)
(***************************************************************************)
\* what Rerun resets: the script starts again on the same input and disk
Restart ==
    /\ run' = "rerun"
    /\ pc' = "start"
    /\ today' \in {today, Day2}
    /\ prev' = hist.out
    /\ hist' = EmptyHist
    /\ openai_responses' = <<>>
    /\ openai_responses_file' = <<>>
    /\ timestamp' = <<>>
    /\ i' = 0
    /\ parsed' = EmptyResult
    /\ deals' = <<>>
    /\ failed' = <<>>
    /\ summary' = <<>>
    /\ UNCHANGED <<script, now, matched, outputs, poll, dt>>

\* the run has ended, or is killed at any point, and the script is run again
Rerun ==
    /\ script = "parse" /\ run = "first"
    /\ pc \in (Running \ {"dump"}) \cup {"done", "halted"}
    /\ Restart
    /\ UNCHANGED files

\* killed between open and close: the file holds what had reached the disk
RerunAfterKillDuringDump ==
    /\ script = "parse" /\ run = "first" /\ pc = "dump"
    /\ \E k \in 0..(Len(openai_responses) - 1) :
        files' = WriteFile(files, openai_responses_file, Partial(openai_responses, k))
    /\ Restart

(***************************************************************************)
(* pl.py, lines 73-111: polling the search run and retrieving its result.  *)
(***************************************************************************)
Statuses == {"queued", "running", "completed", "failed", "cancelled"}

\* a plausible slip: a failed run also ends the polling
is_completed_or_failed(status) == status \in {"completed", "failed"}

\* run_status.status.status == 'completed'
is_completed(status) == status = "completed"

\* one turn of the while loop: retrieve the status; break, or sleep and go on
Poll ==
    /\ script = "pl" /\ pc = "poll"
    /\ \E status \in Statuses :
        /\ is_completed(status) \/ poll.count < MaxPolls
        /\ poll' = [count |-> poll.count + 1, last |-> status]
        /\ pc' = IF is_completed(status) THEN "retrieve" ELSE "poll"
    /\ UNCHANGED <<script, run, now, today, matched, files, openai_responses,
                   openai_responses_file, timestamp, i, parsed, deals, failed,
                   outputs, summary, hist, prev, dt>>

\* client.beta.findall.retrieve raises: nothing catches it, the run ends
PollRaises ==
    /\ script = "pl" /\ pc = "poll"
    /\ hist.faults < MaxFaults
    /\ hist' = [hist EXCEPT !.faults = @ + 1]
    /\ pc' = "halted"
    /\ UNCHANGED <<script, run, now, today, matched, files, openai_responses,
                   openai_responses_file, timestamp, i, parsed, deals, failed,
                   outputs, summary, prev, poll, dt>>

\* lines 89-111: the result is fetched, filtered and saved under a new timestamp
Retrieve ==
    /\ script = "pl" /\ pc = "retrieve"
    /\ \E cs \in CandidateLists : matched' = Filter(cs)
    /\ timestamp' = strftime(now)
    /\ now' = now + 1
    /\ outputs' = outputs \cup {<<"parallel_raw", timestamp'>>}
    /\ pc' = "loop"
    /\ UNCHANGED <<script, run, today, files, openai_responses,
                   openai_responses_file, i, parsed, deals, failed, summary, hist,
                   prev, poll, dt>>

\* fetching or saving the result raises: the run ends
RetrieveRaises ==
    /\ script = "pl" /\ pc = "retrieve"
    /\ hist.faults < MaxFaults
    /\ hist' = [hist EXCEPT !.faults = @ + 1]
    /\ pc' = "halted"
    /\ UNCHANGED <<script, run, now, today, matched, files, openai_responses,
                   openai_responses_file, timestamp, i, parsed, deals, failed,
                   outputs, summary, prev, poll, dt>>

Next ==
    \/ DiscoverNone \/ DiscoverLoad \/ DiscoverLoadRaises
    \/ ProgressRaises \/ CacheHit \/ CacheMiss
    \/ OpenCacheFile \/ OpenCacheFileRaises \/ DumpCache \/ DumpCacheRaises
    \/ PlIterate
    \/ SaveResults \/ SaveSummaryOnly \/ SaveSummaryRaises \/ SaveExcelRaises
    \/ Rerun \/ RerunAfterKillDuringDump
    \/ Poll \/ PollRaises \/ Retrieve \/ RetrieveRaises

Spec == Init /\ [][Next]_vars

(***************************************************************************)
(* parse_deal_type on its own: every text of at most MaxWords words.       *)
(***************************************************************************)
InitDT ==
    /\ script = "dt"
    /\ pc = "classify"
    /\ run = "first"
    /\ now = 12
    /\ today = Day1
    /\ matched = <<>>
    /\ files = NoFiles
    /\ openai_responses = <<>>
    /\ openai_responses_file = <<>>
    /\ timestamp = <<>>
    /\ i = 0
    /\ parsed = EmptyResult
    /\ deals = <<>>
    /\ failed = <<>>
    /\ outputs = {}
    /\ summary = <<>>
    /\ hist = EmptyHist
    /\ prev = <<>>
    /\ poll = [count |-> 0, last |-> ""]
    /\ \E ws \in WordSeqs : dt = [words |-> ws, text |-> Join(ws), result |-> ""]

ClassifyDealType ==
    /\ script = "dt" /\ pc = "classify"
    /\ dt' = [dt EXCEPT !.result = parse_deal_type(dt.text)]
    /\ pc' = "done"
    /\ UNCHANGED <<script, run, now, today, matched, files, openai_responses,
                   openai_responses_file, timestamp, i, parsed, deals, failed,
                   outputs, summary, hist, prev, poll>>

NextDT == ClassifyDealType

SpecDT == InitDT /\ [][NextDT]_vars

(***************************************************************************)
(* C10.  Deal-type classification is a case-insensitive substring test in  *)
(* a fixed priority order: a text with one of the words M&A, Acquisition,  *)
(* MERGER (in any casing) is classified M&A; otherwise a text with Option  *)
(* and a word containing "licens" is option-to-license; otherwise a text   *)
(* with a word containing "licens" is licensing; every other text, the     *)
(* empty one included, is partnership.                                     *)
(***************************************************************************)
MAWords == {1, 2, 3}
OptionWords == {4}
LicensWords == {5, 6}

HasWord(ws, S) == \E k \in 1..Len(ws) : ws[k] \in S

ExpectedDealType(ws) ==
    IF HasWord(ws, MAWords) THEN MA
    ELSE IF HasWord(ws, OptionWords) /\ HasWord(ws, LicensWords) THEN OPTION_TO_LICENSE
    ELSE IF HasWord(ws, LicensWords) THEN LICENSING
    ELSE PARTNERSHIP

C10_DealTypePriority ==
    (script = "dt" /\ pc = "done") => dt.result = ExpectedDealType(dt.words)

\* "Acquisition Licensing" has been classified, as M&A
C10_Witness ==
    /\ script = "dt" /\ pc = "done"
    /\ dt.words = <<2, 5>>
    /\ dt.result = MA

(***************************************************************************)
(* Notions the properties below are stated with.                           *)
(***************************************************************************)
\* the cache key of the k-th matched candidate (k = 1, 2, ...)
IdOf(k) == candidate_id(matched[k], k - 1)

\* the indices recorded in the failure list
FailedIndices == {failed[k].index : k \in 1..Len(failed)}

\* what a reader of the cache file finds on disk now: the entries written so far
Durable ==
    IF openai_responses_file \in DOMAIN files
    THEN files[openai_responses_file].data
    ELSE <<>>

\* the time a file name's timestamp stands for
TimeOf(name) ==
    LET ts == StemTimestamp(name)
        digit(c) == (CHOOSE k \in 1..Len(Digits) : Digits[k] = c) - 1
    IN digit(ts[1]) * 10 + digit(ts[2])

\* the Deals among the candidates' outcomes, in order
RECURSIVE DealsOf(_)
DealsOf(out) ==
    IF Len(out) = 0 THEN <<>>
    ELSE IF Head(out) = None THEN DealsOf(Tail(out))
    ELSE <<CHOOSE d \in Head(out) : TRUE>> \o DealsOf(Tail(out))

\* parse.py has passed the cache discovery
Discovered == script = "parse" /\ timestamp # <<>>

(***************************************************************************)
(* C1.  In parse.py the provider is never invoked for a key that the cache *)
(* holds, loaded at startup or stored earlier in the run, and every        *)
(* extraction result handed to normalization is the value the cache holds  *)
(* for the candidate's key; so a rerun on the cache file of an earlier run *)
(* invokes the provider for none of the keys in that file.                 *)
(***************************************************************************)
C1_CacheBypassesProvider ==
    script = "parse" =>
        /\ \A k \in 1..Len(hist.calls) :
            /\ hist.calls[k] \notin Keys(hist.loaded)
            /\ \A j \in 1..(k - 1) : hist.calls[j] # hist.calls[k]
        /\ \A k \in 1..Len(hist.used) :
            hist.used[k] # None =>
                /\ IdOf(k) \in Keys(openai_responses)
                /\ hist.used[k] = Some(Lookup(openai_responses, IdOf(k)))

\* a rerun on the cache file the first run created has processed every
\* candidate, at least two of them, without one call to the provider
C1_Witness ==
    /\ script = "parse" /\ run = "rerun" /\ pc = "done"
    /\ hist.existing = {FileName(<<"1", "2">>)}
    /\ Len(matched) >= 2 /\ Len(deals) = Len(matched)
    /\ hist.calls = <<>>

(***************************************************************************)
(* C2.  Progress that has been persisted is never lost: when no write has  *)
(* raised, the cache file on disk holds, at every point at which the       *)
(* process may be killed, the entry of every candidate but the last        *)
(* processed one that got an extraction result.                            *)
(***************************************************************************)
C2_NoProgressLost ==
    (script = "parse" /\ hist.wfail = {}) =>
        \A k \in 1..(i - 1) :
            hist.used[k] # None => IdOf(k) \in Keys(Durable)

(***************************************************************************)
(* C3.  Each processed candidate is in exactly one of the two lists: it    *)
(* has one Deal in the Deal list, or one entry with its index, name and a  *)
(* message in the failure list; when the loop has ended the two lists      *)
(* together are as long as the list of matched candidates.                 *)
(***************************************************************************)
C3_DealOrFailure ==
    script \in {"parse", "pl"} =>
        /\ Len(hist.out) = i
        /\ deals = DealsOf(hist.out)
        /\ Len(deals) + Len(failed) = i
        /\ \A k \in 1..i :
            IF hist.out[k] # None
            THEN (k - 1) \notin FailedIndices
            ELSE /\ Cardinality({f \in 1..Len(failed) : failed[f].index = k - 1}) = 1
                 /\ \A f \in 1..Len(failed) :
                        failed[f].index = k - 1 =>
                            /\ failed[f].name = Get(matched[k], "name")
                            /\ failed[f].error # ""
        /\ (pc = "done" \/ LoopEnded) => Len(deals) + Len(failed) = Len(matched)

\* a run has ended with a Deal for one candidate and a failure for another
C3_Witness ==
    /\ script \in {"parse", "pl"} /\ pc = "done"
    /\ Len(deals) >= 1 /\ Len(failed) >= 1
    /\ Len(deals) + Len(failed) = Len(matched)

(***************************************************************************)
(* C4.  A candidate whose provider call raised still yields a Deal, built  *)
(* from the defaults (target = the candidate's name, acquirer "Partner",   *)
(* stage "unknown", deal type partnership, source_url = the candidate's    *)
(* url, no monetary value), and has no entry in the failure list.          *)
(***************************************************************************)
DefaultDeal(d, candidate) ==
    /\ d.target = Get(candidate, "name").s
    /\ d.acquirer = "Partner"
    /\ d.stage = "unknown"
    /\ d.deal_type_detailed = PARTNERSHIP
    /\ d.source_url = GetDefault(candidate, "url", JStr("https://example.com"))
    /\ d.upfront_value_usd = None
    /\ d.contingent_payment_usd = None
    /\ d.total_deal_value_usd = None

C4_ExtractionFailureYieldsDefaults ==
    script \in {"parse", "pl"} =>
        \A k \in 1..i :
            (k - 1) \in hist.errs =>
                /\ (k - 1) \notin FailedIndices
                /\ hist.out[k] # None
                /\ \A d \in hist.out[k] : DefaultDeal(d, matched[k])

(***************************************************************************)
(* C5.  A failed write of the cache file halts the run: the loop never     *)
(* goes on after it, and the failure list never holds an entry for the     *)
(* candidate whose cache write raised.                                     *)
(***************************************************************************)
C5_CacheWriteFailureHalts ==
    (script = "parse" /\ hist.wfail # {}) =>
        /\ pc = "halted"
        /\ hist.wfail \cap FailedIndices = {}

(***************************************************************************)
(* C6.  Rerun on the cache of the previous run: a candidate whose key is   *)
(* in the loaded cache, and for which the previous run built a Deal, gets  *)
(* without a call to the provider a Deal equal to the previous one in      *)
(* every field but timestamp_utc, and but date_announced when the cached   *)
(* date is empty or unparseable (it is then the day of the run).           *)
(***************************************************************************)
\* the candidates of the rerun that the claim is about
Recached ==
    {k \in 1..i : /\ k <= Len(prev)
                  /\ prev[k] # None
                  /\ IdOf(k) \in Keys(hist.loaded)}

\* the cached date of candidate k parses to the same date on any day
DateIsFixed(k) ==
    LET v == Or(Get(Lookup(hist.loaded, IdOf(k)), "date_announced"), JStr(""))
    IN parse_date(Str(v), Day1) = parse_date(Str(v), Day2)

Untimed(d) == [d EXCEPT !.timestamp_utc = 0, !.date_announced = Day1]

C6_RerunSameDealsButTime ==
    (script = "parse" /\ run = "rerun") =>
        \A k \in Recached :
            /\ \A j \in 1..Len(hist.calls) : hist.calls[j] # IdOf(k)
            /\ hist.out[k] # None
            /\ \A d \in hist.out[k], e \in prev[k] :
                /\ Untimed(d) = Untimed(e)
                /\ DateIsFixed(k) => d.date_announced = e.date_announced

\* the claim as stated: the Deal of the rerun is the Deal of the previous run
\* (even with timestamp_utc, the time of the normalization, left aside)
C6_RerunIdenticalDeals ==
    (script = "parse" /\ run = "rerun") =>
        \A k \in Recached :
            /\ \A j \in 1..Len(hist.calls) : hist.calls[j] # IdOf(k)
            /\ hist.out[k] # None
            /\ \A d \in hist.out[k], e \in prev[k] :
                [d EXCEPT !.timestamp_utc = 0] = [e EXCEPT !.timestamp_utc = 0]

\* a rerun on the next day: a cached candidate without a parseable date gets
\* the same Deal as before, under the new day
C6_Witness ==
    /\ script = "parse" /\ run = "rerun" /\ pc = "done"
    /\ \E k \in Recached :
        /\ ~DateIsFixed(k)
        /\ \E d \in hist.out[k], e \in prev[k] :
            /\ d.date_announced = Day2 /\ e.date_announced = Day1
            /\ d.target = e.target

(***************************************************************************)
(* C7.  Cache discovery: among the files openai_responses_*.json the one   *)
(* with the latest timestamp is selected and loaded in full, and its       *)
(* timestamp is the run's; without such a file the cache starts empty      *)
(* under a new timestamp.  The run's timestamp names the cache file this   *)
(* run writes and the output files it writes.                              *)
(***************************************************************************)
C7_CacheDiscovery ==
    (script = "parse" /\ pc # "start") =>
        /\ IF hist.existing # {}
           THEN /\ openai_responses_file \in hist.existing
                /\ \A n \in hist.existing : TimeOf(n) <= TimeOf(openai_responses_file)
                /\ (pc = "loop" /\ i = 0) =>
                        /\ files[openai_responses_file].ok
                        /\ openai_responses = files[openai_responses_file].data
           ELSE /\ Discovered
                /\ hist.loaded = <<>>
                /\ (pc = "loop" /\ i = 0) => openai_responses = <<>>
        /\ Discovered =>
            /\ openai_responses_file = FileName(timestamp)
            /\ (DOMAIN files) \ hist.existing \subseteq {FileName(timestamp)}
            /\ \A kind \in hist.written : <<kind, timestamp>> \in outputs

\* two cache files were found; the later one was loaded and names the outputs
C7_Witness ==
    /\ script = "parse" /\ run = "first" /\ pc = "done"
    /\ Cardinality(hist.existing) = 2
    /\ timestamp = <<"1", "1">>
    /\ hist.loaded = NewCache
    /\ <<"openai_parsed", <<"1", "1">>>> \in outputs
    /\ <<"deals_parallel_II", <<"1", "1">>>> \in outputs

(***************************************************************************)
(* C8.  A run that ends normally has written the summary file, also when   *)
(* candidates ended in the failure list; it has written the spreadsheet    *)
(* exactly when the Deal list is not empty.                                *)
(***************************************************************************)
C8_OutputsOfARun ==
    (script \in {"parse", "pl"} /\ pc = "done") =>
        /\ "openai_parsed" \in hist.written
        /\ <<"openai_parsed", timestamp>> \in outputs
        /\ summary.total_deals = Len(deals)
        /\ summary.failed_parses = failed
        /\ "deals_parallel_II" \in hist.written <=> Len(deals) > 0
        /\ Len(deals) > 0 => <<"deals_parallel_II", timestamp>> \in outputs

\* the claim as stated: every completed run (here: of at least one candidate)
\* has written both files
C8_BothOutputsAlways ==
    (script \in {"parse", "pl"} /\ pc = "done" /\ Len(matched) >= 1) =>
        hist.written = {"openai_parsed", "deals_parallel_II"}

\* a run has ended with every candidate in the failure list: summary only
C8_Witness ==
    /\ script \in {"parse", "pl"} /\ pc = "done"
    /\ Len(matched) >= 1 /\ Len(failed) = Len(matched)
    /\ hist.written = {"openai_parsed"}

(***************************************************************************)
(* C9.  pl.py goes on to retrieve the result only when a poll has observed *)
(* the status "completed"; after a poll that observed any other status it  *)
(* is polling again.                                                       *)
(***************************************************************************)
C9_RetrieveOnlyWhenCompleted ==
    script = "pl" =>
        /\ pc \in {"retrieve", "loop", "done"} => poll.last = "completed"
        /\ poll.last = "completed" => pc # "poll"
        /\ (poll.count > 0 /\ poll.last # "completed") => pc \in {"poll", "halted"}

\* the third poll observed "completed" after two that did not: retrieval is next
C9_Witness ==
    /\ script = "pl" /\ pc = "retrieve"
    /\ poll.count = 3 /\ poll.last = "completed"


(***************************************************************************)
(* C11.  In the summary file each monetary field of a Deal is the string   *)
(* of its decimal value whenever the Deal holds a value, the value zero    *)
(* included, and null only when the Deal's value is absent; and a Deal's   *)
(* value is absent exactly when the raw extracted value was null or could  *)
(* not be converted to a decimal.                                          *)
(***************************************************************************)
MoneyFields == {"upfront_value_usd", "contingent_payment_usd", "total_deal_value_usd"}

RawMoneyKeys == {"upfront_value_usd", "milestone_value_usd", "total_deal_value_usd"}

\* the raw values a decimal can be made of
Convertible(v) == v.t = "num" \/ (v.t = "str" /\ v.s \in {"120"})

C11_MoneyWrittenAsHeld ==
    /\ \A r \in ExtractionResults : \A key \in RawMoneyKeys :
            (safe_decimal(Get(r, key)) = None) <=> ~Convertible(Get(r, key))
    /\ (pc = "done" /\ "openai_parsed" \in hist.written) =>
            /\ Len(summary.deals) = Len(deals)
            /\ \A k \in 1..Len(deals) : \A f \in MoneyFields :
                    LET x == deals[k][f]
                        s == summary.deals[k][f]
                    IN IF x = None THEN s = None
                       ELSE s = Some(NumText(CHOOSE v \in x : TRUE))

(***************************************************************************)
(* C12.  Within a run of parse.py the cache only grows: an entry that is   *)
(* present, loaded at startup or stored during the run, is never removed   *)
(* and its value never overwritten; and the provider is invoked at most    *)
(* once per distinct candidate identifier, also when two candidates of the *)
(* input carry the same identifier.                                        *)
(***************************************************************************)
\* every entry of the cache d is an entry of e, with the same value
Extends(e, d) ==
    \A k \in 1..Len(d) :
        /\ d[k].key \in Keys(e)
        /\ Lookup(e, d[k].key) = d[k].value

\* a step of the same run (not the start of the next one)
SameRun == run' = run

C12_CacheOnlyGrows ==
    /\ [](script = "parse" =>
            /\ \A j, k \in 1..Len(hist.calls) :
                    hist.calls[j] = hist.calls[k] => j = k
            /\ \A j, k \in 1..Len(openai_responses) :
                    openai_responses[j].key = openai_responses[k].key => j = k
            /\ Extends(openai_responses, hist.loaded))
    /\ [][(script = "parse" /\ SameRun) =>
            Extends(openai_responses', openai_responses)]_vars

\* a run that started on an empty cache has processed two candidates with
\* the same identifier: one call, one entry
C12_Witness ==
    /\ script = "parse" /\ pc = "done" /\ hist.loaded = <<>>
    /\ \E j, k \in 1..Len(matched) :
        /\ j < k /\ IdOf(j) = IdOf(k)
        /\ hist.used[j] # None /\ hist.used[k] # None
        /\ \E c \in 1..Len(hist.calls) : hist.calls[c] = IdOf(j)
    /\ Len(openai_responses) < Len(matched)

====
